---- MODULE Spec2Model ----
(***************************************************************************)
(* PyMammotion: the map-data store (pymammotion/data/model/hash_list.py)   *)
(* and the dual-transport device manager                                   *)
(* (pymammotion/mammotion/devices/mammotion.py).                           *)
(*                                                                         *)
(* Python objects are modelled by identity where the code compares or      *)
(* shares them: a MowingDevice, a MammotionCloud and a CloudIOTGateway are *)
(* numbered in order of construction.  None is the value None.             *)
(***************************************************************************)
EXTENDS Integers, Sequences, FiniteSets, TLC

VARIABLES
    area,          \* HashList.area      : dict hash -> FrameList   (type 0)
    obstacle,      \* HashList.obstacle  : dict hash -> FrameList   (type 1)
    path,          \* HashList.path      : dict hash -> FrameList   (type 2)
    received,      \* history: the arguments of the HashList.update calls so far, in order
    before,        \* history: the three dicts as they were before the latest update
    devices,       \* MammotionDevices.devices : dict name -> MammotionMixedDeviceManager
    nMowing,       \* the number of MowingDevice objects constructed (one per manager)
    mqtt_list,     \* Mammotion.mqtt_list : dict account -> MammotionCloud (its number)
    clouds,        \* the MammotionCloud objects constructed, in order
    gateways,      \* the CloudIOTGateway objects Mammotion.login returned, in order
    cloud_client,  \* Mammotion.cloud_client (set by initiate_cloud_connection)
    login_lock,    \* Mammotion._login_lock : asyncio.Lock (locked, FIFO of waiters)
    tasks,         \* the callers of login_and_initiate_cloud, each at its await
    outcome        \* the latest remove_device or routing call: what it saw, did and returned

hashVars == <<area, obstacle, path, received, before>>

devVars == <<devices, nMowing, mqtt_list, clouds, gateways, cloud_client,
             login_lock, tasks, outcome>>

vars == <<area, obstacle, path, received, before, devices, nMowing, mqtt_list, clouds,
          gateways, cloud_client, login_lock, tasks, outcome>>

None == [cls |-> "NoneType"]

\* an exception of a class, as the outcome of a call
Raised(cls) == [cls |-> cls]

------------------------------------------------------------------------------
(* Bounds of the model.                                                     *)

\* HashList.update is called at most MaxReceived times
MaxReceived == 3
\* the hashes a fragment may carry are 1..MaxHash
MaxHash == 2
\* at most MaxManagers MammotionMixedDeviceManager objects are constructed
MaxManagers == 2
\* the callers of login_and_initiate_cloud are the tasks 1..MaxCallers, one call each
MaxCallers == 2

------------------------------------------------------------------------------
(* hash_list.py                                                             *)

\* the values of the fields of a NavGetCommDataAck that the store reads; two
\* fragments differ in one of them; type 3 is a category update does not know
NavGetCommDataAck ==
    [cls : {"NavGetCommDataAck"}, type : 0..3, hash : 1..MaxHash, total_frame : {2, 3}]

\* FrameList(total_frame=..., data=[...])
FrameList(total_frame, data) == [total_frame |-> total_frame, data |-> data]

\* dict.get(key): the value, or None
DictGet(dict, key) == IF key \in DOMAIN dict THEN dict[key] ELSE None

\* dict[key] = value
DictSet(dict, key, value) ==
    [k \in DOMAIN dict \cup {key} |-> IF k = key THEN value ELSE dict[k]]

\* Python's ==, on the values the store compares: an int and a message are
\* never equal, two messages are equal when all their fields are
PyEq(a, b) == a.cls = b.cls /\ a = b

\* x in list
PyIn(x, list) == \E i \in 1..Len(list) : PyEq(x, list[i])

\* [item.hash for item in hash_dict[hash_data.hash].data]: a list of ints
HashValues(data) == [i \in 1..Len(data) |-> [cls |-> "int", value |-> data[i].hash]]

\* a faulty _add_hash_data: the fragment is appended to every FrameList of the dict
add_hash_data_everywhere(hash_dict, hd) ==
    [k \in DOMAIN hash_dict \cup {hd.hash} |->
        IF k \in DOMAIN hash_dict
        THEN FrameList(hash_dict[k].total_frame, Append(hash_dict[k].data, hd))
        ELSE FrameList(hd.total_frame, <<hd, hd>>)]

\* a faulty _add_hash_data: every fragment sets the total_frame of its FrameList
add_hash_data_retotals(hash_dict, hd) ==
    LET data == IF DictGet(hash_dict, hd.hash) = None THEN <<hd>>
                ELSE hash_dict[hd.hash].data
    IN  DictSet(hash_dict, hd.hash, FrameList(hd.total_frame, Append(data, hd)))

\* HashList._add_hash_data(hash_dict, hash_data): the dict afterwards
add_hash_data(hash_dict, hd) ==
    LET created ==
            IF DictGet(hash_dict, hd.hash) = None
            THEN DictSet(hash_dict, hd.hash, FrameList(hd.total_frame, <<hd>>))
            ELSE hash_dict
        hash_values == HashValues(created[hd.hash].data)
    IN  IF ~PyIn(hd, hash_values)
        THEN DictSet(created, hd.hash,
                     FrameList(created[hd.hash].total_frame,
                               Append(created[hd.hash].data, hd)))
        ELSE created

\* HashList.update(hash_data)
update(hd) ==
    /\ Len(received) < MaxReceived
    /\ area' = IF hd.type = 0 THEN add_hash_data(area, hd) ELSE area
    /\ obstacle' = IF hd.type = 1 THEN add_hash_data(obstacle, hd) ELSE obstacle
    /\ path' = IF hd.type = 2 THEN add_hash_data(path, hd) ELSE path
    /\ received' = Append(received, hd)
    /\ before' = [area |-> area, obstacle |-> obstacle, path |-> path]
    /\ UNCHANGED devVars

\* HashList.update(hash_data) as a function of the three dicts
updated(self, hd) ==
    [area |-> IF hd.type = 0 THEN add_hash_data(self.area, hd) ELSE self.area,
     obstacle |-> IF hd.type = 1 THEN add_hash_data(self.obstacle, hd) ELSE self.obstacle,
     path |-> IF hd.type = 2 THEN add_hash_data(self.path, hd) ELSE self.path]

\* update called with each fragment of a sequence in turn, on a new HashList
RECURSIVE Ingest(_)
Ingest(seq) ==
    IF seq = <<>> THEN [area |-> <<>>, obstacle |-> <<>>, path |-> <<>>]
    ELSE updated(Ingest(SubSeq(seq, 1, Len(seq) - 1)), seq[Len(seq)])

\* HashList(area={}, path={}, obstacle={})
HashInit ==
    /\ area = <<>>
    /\ obstacle = <<>>
    /\ path = <<>>
    /\ received = <<>>
    /\ before = [area |-> <<>>, obstacle |-> <<>>, path |-> <<>>]

Update == \E hd \in NavGetCommDataAck : update(hd)

------------------------------------------------------------------------------
(* mammotion.py: values                                                     *)

\* class ConnectionPreference(Enum)
ConnectionPreference == {"EITHER", "WIFI", "BLUETOOTH"}

\* device names, as prefix and rest; the third is a device of an account that
\* is no mower
Luba1 == <<"Luba-", 1>>
Yuka2 == <<"Yuka-", 2>>
RTK3 == <<"RTK-", 3>>
DeviceNames == {Luba1, Yuka2, RTK3}

\* account identifiers
Accounts == {"acct1", "acct2"}

\* devices_by_account_response.data.data, as list_binding_by_account may fill it
DeviceLists == {<<Luba1>>, <<Luba1, Yuka2, RTK3>>}

\* str.startswith(prefixes)
startswith(name, prefixes) == name[1] \in prefixes

\* a reference to the i-th object of a class
Ref(cls, i) == [cls |-> cls, id |-> i]

\* bool(x) of an object without __bool__ or __len__, or None
Truthy(x) == x # None

\* MammotionBaseBLEDevice(mowing_state, ble_device)
MammotionBaseBLEDevice(mowing_state, ble_device) ==
    [cls |-> "MammotionBaseBLEDevice", mowing_state |-> mowing_state, device |-> ble_device]

\* MammotionBaseCloudDevice(mqtt, cloud_device=..., mowing_state=...)
MammotionBaseCloudDevice(mqtt, cloud_device, mowing_state) ==
    [cls |-> "MammotionBaseCloudDevice", mqtt |-> mqtt, mowing_state |-> mowing_state,
     device |-> cloud_device]

\* what a transport handle's command, start_sync or start_map_sync returns
HandleReturn(handle, op) == [cls |-> "result", handle |-> handle, op |-> op]

------------------------------------------------------------------------------
(* class MammotionMixedDeviceManager                                        *)

\* add_ble(ble_device)
add_ble(self, ble_device) ==
    IF ble_device # None
    THEN [self EXCEPT !.ble_device = MammotionBaseBLEDevice(self.mowing_state, ble_device)]
    ELSE self

\* add_cloud(cloud_device, mqtt)
add_cloud(self, cloud_device, mqtt) ==
    IF cloud_device # None
    THEN [self EXCEPT !.cloud_device =
              MammotionBaseCloudDevice(mqtt, cloud_device, self.mowing_state)]
    ELSE self

\* __init__; mowing_state is the fresh MowingDevice() of this manager
MammotionMixedDeviceManager(name, cloud_device, ble_device, mqtt, preference, mowing_state) ==
    LET self == [name |-> name, mowing_state |-> mowing_state, ble_device |-> None,
                 cloud_device |-> None, preference |-> preference]
    IN  add_cloud(add_ble(self, ble_device), cloud_device, mqtt)

replace_cloud(self, cloud_device) == [self EXCEPT !.cloud_device = cloud_device]

replace_ble(self, ble_device) == [self EXCEPT !.ble_device = ble_device]

\* a faulty replace_mqtt: the handle keeps its connection
replace_mqtt_keeps(self, mqtt) == self

\* replace_mqtt(mqtt): self._cloud_device._mqtt = mqtt
replace_mqtt(self, mqtt) == [self EXCEPT !.cloud_device.mqtt = mqtt]

\* MammotionBaseCloudDevice.mqtt, which add_cloud_devices reads: the connection
\* the handle is bound to, the one __init__ got and replace_mqtt sets
mqtt_of(cloud_device) == cloud_device.mqtt

has_cloud(self) == self.cloud_device # None

has_ble(self) == self.ble_device # None

------------------------------------------------------------------------------
(* class MammotionDevices                                                   *)

\* a faulty add_device: the entry takes the preference of the new manager
add_device_takes_preference(devs, mammotion_device) ==
    LET exists == DictGet(devs, mammotion_device.name)
    IN  IF exists = None
        THEN DictSet(devs, mammotion_device.name, mammotion_device)
        ELSE DictSet(devs, mammotion_device.name,
                     [exists EXCEPT !.cloud_device = IF mammotion_device.cloud_device # None
                                                     THEN mammotion_device.cloud_device ELSE @,
                                    !.ble_device = IF mammotion_device.ble_device # None
                                                   THEN mammotion_device.ble_device ELSE @,
                                    !.preference = mammotion_device.preference])

\* a faulty add_device: the new manager always replaces the entry
add_device_overwrites(devs, mammotion_device) ==
    DictSet(devs, mammotion_device.name, mammotion_device)

\* add_device(mammotion_device): the dict afterwards
add_device(devs, mammotion_device) ==
    LET exists == DictGet(devs, mammotion_device.name)
    IN  IF exists = None
        THEN DictSet(devs, mammotion_device.name, mammotion_device)
        ELSE LET withCloud == IF has_cloud(mammotion_device)
                              THEN replace_cloud(exists, mammotion_device.cloud_device)
                              ELSE exists
                 withBle == IF has_ble(mammotion_device)
                            THEN replace_ble(withCloud, mammotion_device.ble_device)
                            ELSE withCloud
             IN  DictSet(devs, mammotion_device.name, withBle)

\* get_device(name)
get_device(devs, name) == DictGet(devs, name)

\* the entries left that remove_device collects in should_disconnect
should_disconnect(rest, device_for_removal) ==
    {key \in DOMAIN rest :
        /\ rest[key].cloud_device # None
        /\ rest[key].cloud_device.mqtt = device_for_removal.cloud_device.mqtt}

\* MammotionCloud.disconnect() on the objects constructed so far: the connection
\* is no longer reported connected, and the call is counted
disconnect(heap, mqtt) ==
    [heap EXCEPT ![mqtt.id].is_connected = FALSE,
                 ![mqtt.id].disconnects = heap[mqtt.id].disconnects + 1]

\* MammotionCloud.connect_async() has returned: the connection is reported connected
connect_async(heap, mqtt) == [heap EXCEPT ![mqtt.id].is_connected = TRUE]

\* a faulty remove_device: it disconnects whenever the popped entry has a cloud handle
calls_disconnect_always(rest, device_for_removal) == has_cloud(device_for_removal)

\* whether remove_device calls disconnect for the entry it popped
calls_disconnect(rest, device_for_removal) ==
    /\ has_cloud(device_for_removal)
    /\ Cardinality(should_disconnect(rest, device_for_removal)) = 0

\* a faulty remove_device: a name without an entry is passed over in silence
remove_device_quiet(name) ==
    /\ IF name \notin DOMAIN devices
       THEN /\ outcome' = [op |-> "remove_device", name |-> name, device |-> None,
                           invoked |-> {}, raised |-> None, value |-> None]
            /\ UNCHANGED <<devices, clouds>>
       ELSE LET device_for_removal == devices[name]
                rest == [k \in DOMAIN devices \ {name} |-> devices[k]]
            IN  /\ devices' = rest
                /\ clouds' = IF calls_disconnect(rest, device_for_removal)
                             THEN disconnect(clouds, device_for_removal.cloud_device.mqtt)
                             ELSE clouds
                /\ outcome' = [op |-> "remove_device", name |-> name,
                               device |-> device_for_removal, invoked |-> {},
                               raised |-> None, value |-> None]
    /\ UNCHANGED <<nMowing, mqtt_list, gateways, cloud_client, login_lock, tasks>>
    /\ UNCHANGED hashVars

\* remove_device(name): Mammotion.remove_device calls MammotionDevices.remove_device
remove_device(name) ==
    /\ IF name \notin DOMAIN devices
       THEN /\ outcome' = [op |-> "remove_device", name |-> name, device |-> None,
                           invoked |-> {}, raised |-> Raised("KeyError"), value |-> None]
            /\ UNCHANGED <<devices, clouds>>
       ELSE LET device_for_removal == devices[name]
                rest == [k \in DOMAIN devices \ {name} |-> devices[k]]
            IN  /\ devices' = rest
                /\ clouds' = IF calls_disconnect(rest, device_for_removal)
                             THEN disconnect(clouds, device_for_removal.cloud_device.mqtt)
                             ELSE clouds
                /\ outcome' = [op |-> "remove_device", name |-> name,
                               device |-> device_for_removal, invoked |-> {},
                               raised |-> None, value |-> None]
    /\ UNCHANGED <<nMowing, mqtt_list, gateways, cloud_client, login_lock, tasks>>
    /\ UNCHANGED hashVars

\* MammotionDevices.add_device called with a manager built from one transport's
\* device: MammotionMixedDeviceManager(name=..., cloud_device=... or ble_device=...)
register(name, kind, mqtt, preference) ==
    /\ nMowing < MaxManagers
    /\ nMowing' = nMowing + 1
    /\ devices' = add_device(devices,
          MammotionMixedDeviceManager(
              name,
              IF kind = "cloud" THEN [deviceName |-> name] ELSE None,
              IF kind = "ble" THEN [name |-> name] ELSE None,
              IF kind = "cloud" THEN mqtt ELSE None,
              preference, nMowing + 1))
    /\ UNCHANGED <<mqtt_list, clouds, gateways, cloud_client, login_lock, tasks, outcome>>
    /\ UNCHANGED hashVars

------------------------------------------------------------------------------
(* class Mammotion                                                          *)

\* add_ble_device(ble_device, preference), ble_device a BLEDevice
add_ble_device(ble_device, preference) ==
    /\ nMowing < MaxManagers
    /\ nMowing' = nMowing + 1
    /\ devices' = IF Truthy(ble_device)
                  THEN add_device(devices,
                           MammotionMixedDeviceManager(ble_device.name, None, ble_device,
                                                       None, preference, nMowing + 1))
                  ELSE devices
    /\ UNCHANGED <<mqtt_list, clouds, gateways, cloud_client, login_lock, tasks, outcome>>
    /\ UNCHANGED hashVars

\* add_cloud_devices(mqtt_client): the loop from its i-th device on;
\* reg = [devices, nMowing], list = mqtt_client.cloud_client.devices_by_account_response.data.data
RECURSIVE add_cloud_devices_from(_, _, _, _)
add_cloud_devices_from(reg, mqtt_client, list, i) ==
    IF i > Len(list) THEN reg
    ELSE LET deviceName == list[i]
             device == [deviceName |-> deviceName]
             mower_device == get_device(reg.devices, deviceName)
             after ==
                 IF startswith(deviceName, {"Luba-", "Yuka-"}) /\ mower_device = None
                 THEN [devices |-> add_device(reg.devices,
                                      MammotionMixedDeviceManager(deviceName, device, None,
                                          mqtt_client, "WIFI", reg.nMowing + 1)),
                       nMowing |-> reg.nMowing + 1]
                 ELSE IF startswith(deviceName, {"Luba-", "Yuka-"}) /\ Truthy(mower_device)
                 THEN IF mower_device.cloud_device = None
                      THEN [reg EXCEPT !.devices[deviceName] =
                                           add_cloud(mower_device, device, mqtt_client)]
                      ELSE IF mqtt_client # mqtt_of(mower_device.cloud_device)
                      THEN [reg EXCEPT !.devices[deviceName] =
                                           replace_mqtt(mower_device, mqtt_client)]
                      ELSE reg
                 ELSE reg
         IN  add_cloud_devices_from(after, mqtt_client, list, i + 1)

\* add_cloud_devices(mqtt_client), heap the MammotionCloud objects, gw the gateways
add_cloud_devices(reg, mqtt_client, heap, gw) ==
    add_cloud_devices_from(reg, mqtt_client, gw[heap[mqtt_client.id].cloud_client.id].devices, 1)

\* the task t leaves login_and_initiate_cloud: the lock is released on the way out
Leave(t, account, force, login_done, client, raised) ==
    [tasks EXCEPT ![t] = [pc |-> "done", account |-> account, force |-> force,
                          login_done |-> login_done, cloud_client |-> client,
                          raised |-> raised]]

\* a faulty initiate_cloud_connection: it never looks at the existing connection
reuses_connection_never(existing, heap) == FALSE

\* "self.mqtt_list.get(account) is not None" and "....is_connected"
reuses_connection(existing, heap) == existing # None /\ heap[existing.id].is_connected

\* initiate_cloud_connection(account, cloud_client) up to its return or its await,
\* called by task t holding the lock; gw are the gateways, waiters the lock's
initiate_cloud_connection(t, account, force, login_done, client, gw, waiters) ==
    LET existing == DictGet(mqtt_list, account)
    IN  IF reuses_connection(existing, clouds)
        THEN LET reg == add_cloud_devices([devices |-> devices, nMowing |-> nMowing],
                                          existing, clouds, gw)
             IN  /\ reg.nMowing <= MaxManagers
                 /\ devices' = reg.devices
                 /\ nMowing' = reg.nMowing
                 /\ tasks' = Leave(t, account, force, login_done, client, None)
                 /\ login_lock' = [locked |-> FALSE, waiters |-> waiters]
                 /\ UNCHANGED <<mqtt_list, clouds, cloud_client>>
        ELSE LET mammotion_cloud == Ref("MammotionCloud", Len(clouds) + 1)
                 heap == Append(clouds, [cloud_client |-> client, account |-> account,
                                         is_connected |-> FALSE, disconnects |-> 0])
                 reg == add_cloud_devices([devices |-> devices, nMowing |-> nMowing],
                                          mammotion_cloud, heap, gw)
             IN  /\ reg.nMowing <= MaxManagers
                 /\ cloud_client' = client
                 /\ clouds' = heap
                 /\ mqtt_list' = DictSet(mqtt_list, account, mammotion_cloud)
                 /\ devices' = reg.devices
                 /\ nMowing' = reg.nMowing
                 /\ tasks' = [tasks EXCEPT ![t] =
                        [pc |-> "connect", account |-> account, force |-> force,
                         login_done |-> login_done, cloud_client |-> client,
                         raised |-> None]]
                 /\ login_lock' = [locked |-> TRUE, waiters |-> waiters]

\* a faulty login_and_initiate_cloud: it does not look at force
needs_login_ignores_force(exists, force) == ~Truthy(exists)

\* a faulty login_and_initiate_cloud: it logs in whether or not a session exists
needs_login_always(exists, force) == TRUE

\* whether login_and_initiate_cloud logs in: "if not exists or force"
needs_login(exists, force) == ~Truthy(exists) \/ force

\* login_and_initiate_cloud from the lock's acquisition to its first await
locked_section(t, account, force, waiters) ==
    LET exists == DictGet(mqtt_list, account)
    IN  IF needs_login(exists, force)
        THEN /\ tasks' = [tasks EXCEPT ![t] =
                    [pc |-> "login", account |-> account, force |-> force,
                     login_done |-> TRUE, cloud_client |-> None, raised |-> None]]
             /\ login_lock' = [locked |-> TRUE, waiters |-> waiters]
             /\ UNCHANGED <<devices, nMowing, mqtt_list, clouds, cloud_client>>
        ELSE initiate_cloud_connection(t, account, force, FALSE,
                                       clouds[exists.id].cloud_client, gateways, waiters)

\* a faulty login_and_initiate_cloud: it does not wait for the lock
lock_is_free_unchecked == TRUE

\* asyncio.Lock.acquire returns at once: the lock is free and nobody waits for it
lock_is_free == ~login_lock.locked /\ login_lock.waiters = <<>>

\* login_and_initiate_cloud(account, password, force) is called by task t
login_and_initiate_cloud(t, account, force) ==
    /\ tasks[t].pc = "idle"
    /\ IF lock_is_free
       THEN locked_section(t, account, force, login_lock.waiters)
       ELSE /\ tasks' = [tasks EXCEPT ![t] =
                   [pc |-> "waiting", account |-> account, force |-> force,
                    login_done |-> FALSE, cloud_client |-> None, raised |-> None]]
            /\ login_lock' = [login_lock EXCEPT !.waiters = Append(@, t)]
            /\ UNCHANGED <<devices, nMowing, mqtt_list, clouds, cloud_client>>
    /\ UNCHANGED <<gateways, outcome>>
    /\ UNCHANGED hashVars

\* the lock was released and task t is the first of its waiters: it takes the lock
lock_acquired(t) ==
    /\ tasks[t].pc = "waiting"
    /\ ~login_lock.locked
    /\ login_lock.waiters # <<>>
    /\ Head(login_lock.waiters) = t
    /\ locked_section(t, tasks[t].account, tasks[t].force, Tail(login_lock.waiters))
    /\ UNCHANGED <<gateways, outcome>>
    /\ UNCHANGED hashVars

\* "cloud_client = await self.login(account, password)" returns a new gateway
\* holding the account's device list
login_returns(t, list) ==
    /\ tasks[t].pc = "login"
    /\ gateways' = Append(gateways, [account |-> tasks[t].account, devices |-> list])
    /\ initiate_cloud_connection(t, tasks[t].account, tasks[t].force, TRUE,
                                 Ref("CloudIOTGateway", Len(gateways) + 1),
                                 gateways', login_lock.waiters)
    /\ UNCHANGED outcome
    /\ UNCHANGED hashVars

\* a faulty login_and_initiate_cloud: a failed login exchange leaves the lock held
login_raises_keeps_lock(t) ==
    /\ tasks[t].pc = "login"
    /\ tasks' = Leave(t, tasks[t].account, tasks[t].force, TRUE, None, Raised("LoginError"))
    /\ UNCHANGED <<devices, nMowing, mqtt_list, clouds, gateways, cloud_client, outcome,
                   login_lock>>
    /\ UNCHANGED hashVars

\* the login exchange fails: the exception leaves the "async with"
login_raises(t) ==
    /\ tasks[t].pc = "login"
    /\ tasks' = Leave(t, tasks[t].account, tasks[t].force, TRUE, None, Raised("LoginError"))
    /\ login_lock' = [login_lock EXCEPT !.locked = FALSE]
    /\ UNCHANGED <<devices, nMowing, mqtt_list, clouds, gateways, cloud_client, outcome>>
    /\ UNCHANGED hashVars

\* "await loop.run_in_executor(None, self.mqtt_list[account].connect_async)"
\* returns
connect_returns(t) ==
    /\ tasks[t].pc = "connect"
    /\ clouds' = connect_async(clouds, mqtt_list[tasks[t].account])
    /\ tasks' = Leave(t, tasks[t].account, tasks[t].force, tasks[t].login_done,
                      tasks[t].cloud_client, None)
    /\ login_lock' = [login_lock EXCEPT !.locked = FALSE]
    /\ UNCHANGED <<devices, nMowing, mqtt_list, gateways, cloud_client, outcome>>
    /\ UNCHANGED hashVars

\* the connect fails: the exception leaves the "async with"
connect_raises(t) ==
    /\ tasks[t].pc = "connect"
    /\ tasks' = Leave(t, tasks[t].account, tasks[t].force, tasks[t].login_done,
                      tasks[t].cloud_client, Raised("ConnectionError"))
    /\ login_lock' = [login_lock EXCEPT !.locked = FALSE]
    /\ UNCHANGED <<devices, nMowing, mqtt_list, clouds, gateways, cloud_client, outcome>>
    /\ UNCHANGED hashVars

\* Credentials, with the fields create_devices reads; a field that is not set
\* is falsy, here the empty string
Credentials ==
    {[cls |-> "Credentials", account_id |-> "acct1", email |-> ""],
     [cls |-> "Credentials", account_id |-> "", email |-> "acct2"]}

\* "cloud_credentials and preference == EITHER or preference == WIFI": and binds
\* tighter than or
starts_login(cloud_credentials, preference) ==
    (Truthy(cloud_credentials) /\ preference = "EITHER") \/ preference = "WIFI"

\* create_devices has called add_ble_device and is about to call
\* login_and_initiate_cloud, with nothing awaited in between
LoginPending ==
    /\ outcome # None
    /\ outcome.op = "create_devices"
    /\ outcome.invoked = {"login_and_initiate_cloud"}
    /\ tasks[outcome.task].pc = "idle"

\* create_devices(ble_device, cloud_credentials, preference), called by task t,
\* up to the call of login_and_initiate_cloud: Mammotion() is the one instance,
\* add_ble_device registers the radio device, and the arguments of the login
\* are evaluated, which raises AttributeError when cloud_credentials is None;
\* without a login it returns the instance
create_devices(t, ble_device, cloud_credentials, preference) ==
    /\ tasks[t].pc = "idle"
    /\ ~LoginPending
    /\ nMowing < MaxManagers
    /\ nMowing' = nMowing + 1
    /\ devices' = IF Truthy(ble_device)
                  THEN add_device(devices,
                           MammotionMixedDeviceManager(ble_device.name, None, ble_device,
                                                       None, preference, nMowing + 1))
                  ELSE devices
    /\ outcome' =
           LET call == [op |-> "create_devices", name |-> ble_device.name, task |-> t,
                        cloud_credentials |-> cloud_credentials,
                        preference |-> preference, account |-> "",
                        invoked |-> {}, raised |-> None, value |-> None]
           IN  IF starts_login(cloud_credentials, preference)
               THEN IF cloud_credentials = None
                    THEN [call EXCEPT !.raised = Raised("AttributeError")]
                    ELSE [call EXCEPT !.invoked = {"login_and_initiate_cloud"},
                                      !.account = IF cloud_credentials.account_id # ""
                                                  THEN cloud_credentials.account_id
                                                  ELSE cloud_credentials.email]
               ELSE [call EXCEPT !.value = Ref("Mammotion", 1)]
    /\ UNCHANGED <<mqtt_list, clouds, gateways, cloud_client, login_lock, tasks>>
    /\ UNCHANGED hashVars

\* create_devices goes on: "await mammotion.login_and_initiate_cloud(account,
\* password)", force left at its default
create_devices_login ==
    /\ LoginPending
    /\ login_and_initiate_cloud(outcome.task, outcome.account, FALSE)

\* get_device_by_name(name)
get_device_by_name(name) == get_device(devices, name)

\* mower(name): the MowingDevice of the entry, or None
mower(name) ==
    LET device == get_device_by_name(name)
    IN  IF Truthy(device) THEN device.mowing_state ELSE None

\* "return await handle.<op>(...)" for a handle of one kind that may be None;
\* device is what get_device_by_name returned
Dispatch(op, name, device, handle, kind) ==
    IF handle = None
    THEN [op |-> op, name |-> name, device |-> device, invoked |-> {},
          raised |-> Raised("AttributeError"), value |-> None]
    ELSE [op |-> op, name |-> name, device |-> device, invoked |-> {kind},
          raised |-> None, value |-> HandleReturn(handle, op)]

\* a routing function falls off its end: it returns None
FallThrough(op, name, device) ==
    [op |-> op, name |-> name, device |-> device, invoked |-> {}, raised |-> None,
     value |-> None]

\* a faulty send_command: the two transports are swapped
send_command_swapped(name) ==
    LET device == get_device(devices, name)
    IN  /\ outcome' =
               IF Truthy(device)
               THEN IF device.preference = "BLUETOOTH"
                    THEN Dispatch("send_command", name, device, device.cloud_device, "cloud")
                    ELSE IF device.preference = "WIFI"
                    THEN Dispatch("send_command", name, device, device.ble_device, "ble")
                    ELSE FallThrough("send_command", name, device)
               ELSE FallThrough("send_command", name, device)
        /\ UNCHANGED <<devices, nMowing, mqtt_list, clouds, gateways, cloud_client,
                       login_lock, tasks>>
        /\ UNCHANGED hashVars

\* send_command(name, key)
send_command(name) ==
    LET device == get_device_by_name(name)
    IN  /\ outcome' =
               IF Truthy(device)
               THEN IF device.preference = "BLUETOOTH"
                    THEN Dispatch("send_command", name, device, device.ble_device, "ble")
                    ELSE IF device.preference = "WIFI"
                    THEN Dispatch("send_command", name, device, device.cloud_device, "cloud")
                    ELSE FallThrough("send_command", name, device)
               ELSE FallThrough("send_command", name, device)
        /\ UNCHANGED <<devices, nMowing, mqtt_list, clouds, gateways, cloud_client,
                       login_lock, tasks>>
        /\ UNCHANGED hashVars

\* send_command_with_args(name, key, **kwargs)
send_command_with_args(name) ==
    LET device == get_device_by_name(name)
    IN  /\ outcome' =
               IF Truthy(device)
               THEN IF device.preference = "BLUETOOTH"
                    THEN Dispatch("send_command_with_args", name, device, device.ble_device, "ble")
                    ELSE IF device.preference = "WIFI"
                    THEN Dispatch("send_command_with_args", name, device, device.cloud_device, "cloud")
                    ELSE FallThrough("send_command_with_args", name, device)
               ELSE FallThrough("send_command_with_args", name, device)
        /\ UNCHANGED <<devices, nMowing, mqtt_list, clouds, gateways, cloud_client,
                       login_lock, tasks>>
        /\ UNCHANGED hashVars

\* start_sync(name, retry)
start_sync(name) ==
    LET device == get_device_by_name(name)
    IN  /\ outcome' =
               IF Truthy(device)
               THEN IF device.preference = "BLUETOOTH"
                    THEN Dispatch("start_sync", name, device, device.ble_device, "ble")
                    ELSE IF device.preference = "WIFI"
                    THEN Dispatch("start_sync", name, device, device.cloud_device, "cloud")
                    ELSE FallThrough("start_sync", name, device)
               ELSE FallThrough("start_sync", name, device)
        /\ UNCHANGED <<devices, nMowing, mqtt_list, clouds, gateways, cloud_client,
                       login_lock, tasks>>
        /\ UNCHANGED hashVars

\* start_map_sync(name)
start_map_sync(name) ==
    LET device == get_device_by_name(name)
    IN  /\ outcome' =
               IF Truthy(device)
               THEN IF device.preference = "BLUETOOTH"
                    THEN Dispatch("start_map_sync", name, device, device.ble_device, "ble")
                    ELSE IF device.preference = "WIFI"
                    THEN Dispatch("start_map_sync", name, device, device.cloud_device, "cloud")
                    ELSE FallThrough("start_map_sync", name, device)
               ELSE FallThrough("start_map_sync", name, device)
        /\ UNCHANGED <<devices, nMowing, mqtt_list, clouds, gateways, cloud_client,
                       login_lock, tasks>>
        /\ UNCHANGED hashVars

------------------------------------------------------------------------------
(* Specifications                                                           *)

Tasks == 1..MaxCallers

\* a task that has not called yet: it has no account (the empty string)
IdleTask == [pc |-> "idle", account |-> "", force |-> FALSE, login_done |-> FALSE,
             cloud_client |-> None, raised |-> None]

\* Mammotion(): empty class-level dicts, a fresh unlocked lock
DevInit ==
    /\ devices = <<>>
    /\ nMowing = 0
    /\ mqtt_list = <<>>
    /\ clouds = <<>>
    /\ gateways = <<>>
    /\ cloud_client = None
    /\ login_lock = [locked |-> FALSE, waiters |-> <<>>]
    /\ tasks = [t \in Tasks |-> IdleTask]
    /\ outcome = None

Init == HashInit /\ DevInit

\* the MammotionCloud objects constructed so far
Clouds == {Ref("MammotionCloud", i) : i \in 1..Len(clouds)}

AddBleDevice ==
    \E name \in DeviceNames, preference \in ConnectionPreference :
        add_ble_device([name |-> name], preference)

Register ==
    \E name \in DeviceNames, preference \in ConnectionPreference :
        \/ register(name, "ble", None, preference)
        \/ \E mqtt \in Clouds : register(name, "cloud", mqtt, preference)

RemoveDevice == \E name \in DeviceNames : remove_device(name)

LoginAndInitiateCloud ==
    \E t \in Tasks, account \in Accounts, force \in BOOLEAN :
        login_and_initiate_cloud(t, account, force)

LockAcquired == \E t \in Tasks : lock_acquired(t)

LoginReturns == \E t \in Tasks, list \in DeviceLists : login_returns(t, list)

LoginRaises == \E t \in Tasks : login_raises(t)

ConnectReturns == \E t \in Tasks : connect_returns(t)

ConnectRaises == \E t \in Tasks : connect_raises(t)

SendCommand == \E name \in DeviceNames : send_command(name)

SendCommandWithArgs == \E name \in DeviceNames : send_command_with_args(name)

StartSync == \E name \in DeviceNames : start_sync(name)

StartMapSync == \E name \in DeviceNames : start_map_sync(name)

Next ==
    \/ RemoveDevice
    \/ LoginAndInitiateCloud
    \/ LockAcquired
    \/ LoginReturns
    \/ LoginRaises
    \/ ConnectReturns
    \/ ConnectRaises

\* the account sessions under concurrent callers, whose devices are removed
\* at any moment
Spec == Init /\ [][Next]_vars

\* callers log in one after the other, without force, and nothing fails; the
\* callers are interchangeable, so they are taken in the order of their numbers
SerialCaller ==
    \E t \in Tasks, account \in Accounts :
        /\ \A u \in Tasks : tasks[u].pc \in {"idle", "done"}
        /\ \A u \in 1..(t - 1) : tasks[u].pc = "done"
        /\ login_and_initiate_cloud(t, account, FALSE)

\* one caller logs in, without force, and nothing fails
SoleCaller == \E account \in Accounts : login_and_initiate_cloud(1, account, FALSE)

NextRegister ==
    \/ AddBleDevice
    \/ Register
    \/ SoleCaller
    \/ LoginReturns
    \/ ConnectReturns

\* the registrations of managers, over radio and on the connection one login
\* builds
SpecRegister == Init /\ [][NextRegister]_vars

NextRegistry ==
    \/ AddBleDevice
    \/ RemoveDevice
    \/ SerialCaller
    \/ LoginReturns
    \/ ConnectReturns

\* the registry under additions over radio, removals and logins one at a time
SpecRegistry == Init /\ [][NextRegistry]_vars

NextRoute ==
    \/ AddBleDevice
    \/ Register
    \/ SoleCaller
    \/ LoginReturns
    \/ ConnectReturns
    \/ SendCommand
    \/ SendCommandWithArgs
    \/ StartSync
    \/ StartMapSync

\* the routing of commands on the registries that additions, registrations and
\* one login build
SpecRoute == Init /\ [][NextRoute]_vars

NextRetry ==
    \/ LoginAndInitiateCloud
    \/ LockAcquired
    \/ LoginReturns
    \/ LoginRaises
    \/ ConnectReturns
    \/ ConnectRaises

\* the account sessions under concurrent callers, where the event loop runs
\* the first waiter of a released lock, and an awaited login exchange or
\* connect ends, by returning or by raising
SpecRetry ==
    /\ Init
    /\ [][NextRetry]_vars
    /\ WF_vars(LockAcquired)
    /\ WF_vars(LoginReturns \/ LoginRaises)
    /\ WF_vars(ConnectReturns \/ ConnectRaises)

CreateDevices ==
    \E t \in Tasks, name \in DeviceNames, cloud_credentials \in Credentials \cup {None},
       preference \in ConnectionPreference :
        create_devices(t, [name |-> name], cloud_credentials, preference)

\* the event loop runs another task only at an await: not while a
\* create_devices is between add_ble_device and its login
NextCreate ==
    \/ CreateDevices
    \/ create_devices_login
    \/ ~LoginPending /\ LockAcquired
    \/ ~LoginPending /\ LoginReturns
    \/ ~LoginPending /\ LoginRaises
    \/ ~LoginPending /\ ConnectReturns
    \/ ~LoginPending /\ ConnectRaises

\* the callers of create_devices
SpecCreate == Init /\ [][NextCreate]_vars

NextHash == Update

\* the map-data store
SpecHash == Init /\ [][NextHash]_vars

------------------------------------------------------------------------------
(* Properties of the account sessions.                                      *)

\* the tasks that have called login_and_initiate_cloud for an account
Callers(a) == {t \in Tasks : tasks[t].pc # "idle" /\ tasks[t].account = a}

\* the MammotionCloud objects constructed for an account
CloudsOf(a) == {i \in 1..Len(clouds) : clouds[i].account = a}

\* the gateways the login exchanges for an account returned
GatewaysOf(a) == {i \in 1..Len(gateways) : gateways[i].account = a}

\* the calls for an account are all without force, none has raised, and no
\* connection of the account was ever disconnected
Undisturbed(a) ==
    /\ \A t \in Callers(a) : ~tasks[t].force /\ tasks[t].raised = None
    /\ \A i \in CloudsOf(a) : clouds[i].disconnects = 0

\* C1 (login dedup): while the calls for an account are without force, succeed
\* and its connection is not disconnected, at most one of them performs the
\* login exchange and at most one MammotionCloud is constructed for the
\* account; once they have all returned, exactly one of each.
C1_LoginDedup ==
    \A a \in Accounts :
        Undisturbed(a) =>
            /\ Cardinality({t \in Callers(a) : tasks[t].login_done}) <= 1
            /\ Cardinality(GatewaysOf(a)) <= 1
            /\ Cardinality(CloudsOf(a)) <= 1
            /\ (Callers(a) # {} /\ \A t \in Callers(a) : tasks[t].pc = "done") =>
                   /\ Cardinality({t \in Callers(a) : tasks[t].login_done}) = 1
                   /\ Cardinality(GatewaysOf(a)) = 1
                   /\ Cardinality(CloudsOf(a)) = 1

\* every caller has called for the same account and returned, undisturbed
C1_AllCallersReturned ==
    \E a \in Accounts :
        /\ Callers(a) = Tasks
        /\ \A t \in Tasks : tasks[t].pc = "done"
        /\ Undisturbed(a)

\* the tasks between "async with self._login_lock" taking the lock and leaving it
InLockedSection == {t \in Tasks : tasks[t].pc \in {"login", "connect"}}

\* C2 (login mutual exclusion): at most one call is between inspecting the
\* session and the end of its connection step, for all accounts together and so
\* for each; it holds the lock, and every waiting caller is queued on the lock.
C2_LoginMutualExclusion ==
    /\ Cardinality(InLockedSection) <= 1
    /\ InLockedSection # {} => login_lock.locked
    /\ \A a \in Accounts :
           Cardinality({t \in InLockedSection : tasks[t].account = a}) <= 1
    /\ \A t \in Tasks :
           tasks[t].pc = "waiting" <=>
               \E i \in 1..Len(login_lock.waiters) : login_lock.waiters[i] = t

\* one caller logs in while another, for the same account, waits for the lock
C2_CallerWaitsDuringLogin ==
    \E t, u \in Tasks :
        /\ tasks[t].pc = "login"
        /\ tasks[u].pc = "waiting"
        /\ tasks[t].account = tasks[u].account

\* the connection mqtt_list holds for an account is reported connected
Connected(a) ==
    /\ DictGet(mqtt_list, a) # None
    /\ clouds[mqtt_list[a].id].is_connected

\* C10 (single broker connection per account): in a step from a state where the
\* account's connection is reported connected, no MammotionCloud is constructed
\* for the account, mqtt_list keeps the connection, no call for the account
\* starts a connect, and a call for the account that returns normally in the
\* step has done nothing but run add_cloud_devices against that connection.
C10_SingleBrokerPerAccount ==
    [][\A a \in Accounts :
          Connected(a) =>
              /\ \A i \in 1..Len(clouds') : i > Len(clouds) => clouds'[i].account # a
              /\ mqtt_list'[a] = mqtt_list[a]
              /\ \A t \in Tasks :
                     (tasks'[t].pc = "connect" /\ tasks'[t].account = a)
                         => tasks[t].pc = "connect"
              /\ \A t \in Tasks :
                     (/\ tasks[t].pc \in {"idle", "waiting", "login"}
                      /\ tasks'[t].pc = "done"
                      /\ tasks'[t].account = a
                      /\ tasks'[t].raised = None)
                     => /\ clouds' = clouds
                        /\ devices' = add_cloud_devices(
                                          [devices |-> devices, nMowing |-> nMowing],
                                          mqtt_list[a], clouds, gateways').devices]_vars

\* a forced call has logged in, found the account's connection connected and
\* returned: the account has one MammotionCloud, built by an earlier call
C10_ForcedCallReusedConnection ==
    \E t \in Tasks :
        /\ tasks[t].pc = "done"
        /\ tasks[t].force
        /\ tasks[t].raised = None
        /\ Cardinality(CloudsOf(tasks[t].account)) = 1
        /\ Connected(tasks[t].account)
        /\ clouds[mqtt_list[tasks[t].account].id].cloud_client # tasks[t].cloud_client

\* the task enters the section under the lock in this step
EntersLockedSection(t) ==
    /\ tasks[t].pc \in {"idle", "waiting"}
    /\ tasks'[t].pc \in {"login", "connect", "done"}

\* C11 (force semantics): a call that takes the lock goes to the login exchange
\* exactly when force is true or mqtt_list has no MammotionCloud for the
\* account; otherwise it performs no login exchange, takes the cloud_client
\* stored in the account's MammotionCloud and runs initiate_cloud_connection
\* with it, which returns or constructs a MammotionCloud around that stored
\* cloud_client and awaits its connect.
C11_ForceSemantics ==
    [][\A t \in Tasks :
          EntersLockedSection(t) =>
              LET a == tasks'[t].account
                  exists == DictGet(mqtt_list, a)
              IN  /\ (tasks'[t].pc = "login") <=> (tasks'[t].force \/ exists = None)
                  /\ tasks'[t].login_done <=> (tasks'[t].force \/ exists = None)
                  /\ (~tasks'[t].force /\ exists # None) =>
                         /\ gateways' = gateways
                         /\ tasks'[t].cloud_client = clouds[exists.id].cloud_client
                         /\ tasks'[t].pc = "connect" =>
                                /\ Len(clouds') = Len(clouds) + 1
                                /\ mqtt_list'[a].id = Len(clouds')
                                /\ clouds'[Len(clouds')].cloud_client =
                                       clouds[exists.id].cloud_client]_vars

\* a call without force found the account's MammotionCloud not connected: it
\* awaits the connect of a new one, having skipped the login exchange
C11_ConnectWithoutLogin ==
    \E t \in Tasks :
        /\ tasks[t].pc = "connect"
        /\ ~tasks[t].force
        /\ ~tasks[t].login_done
        /\ tasks[t].cloud_client # None

\* the login exchange or the connect of task t fails in this step
Fails(t) ==
    /\ tasks[t].pc \in {"login", "connect"}
    /\ tasks'[t].pc = "done"
    /\ tasks'[t].raised # None

\* what a failure leaves, whatever the account's session was: the exception
\* goes to the caller, with the class of the step that failed, the lock is
\* released with its waiters in place, and nothing of the registry and the
\* sessions is changed
FailureReleases(t) ==
    /\ tasks'[t].raised = IF tasks[t].pc = "login" THEN Raised("LoginError")
                          ELSE Raised("ConnectionError")
    /\ login_lock.locked
    /\ ~login_lock'.locked
    /\ login_lock'.waiters = login_lock.waiters
    /\ UNCHANGED <<devices, mqtt_list, clouds, gateways>>

\* a call that takes the lock while the account's session is not connected
\* goes to the login exchange or to the connect of a new MammotionCloud
Retries(t) ==
    (EntersLockedSection(t) /\ ~Connected(tasks'[t].account)) =>
        tasks'[t].pc \in {"login", "connect"}

\* every caller that waits for the lock takes it in the end
WaitersAcquire == \A t \in Tasks : (tasks[t].pc = "waiting") ~> (tasks[t].pc # "waiting")

\* C18 as stated (failure leaves the session retryable): when the login
\* exchange or the connect of a call fails, the exception goes to that caller,
\* the lock is released and the account's session is not reported connected;
\* every waiting caller takes the lock in the end; a later call for the
\* account logs in or connects again.
C18_FailureLeavesRetryable_AsStated ==
    /\ [][\A t \in Tasks :
            /\ Fails(t) => FailureReleases(t) /\ ~Connected(tasks[t].account)'
            /\ Retries(t)]_vars
    /\ WaitersAcquire

\* C18 as amended: the same, but the account's session is not reported
\* connected only when the failed call found it not connected; a forced call
\* whose login exchange fails leaves a connected session connected.
C18_FailureLeavesRetryable ==
    /\ [][\A t \in Tasks :
            /\ Fails(t) =>
                   /\ FailureReleases(t)
                   /\ Connected(tasks[t].account)' <=> Connected(tasks[t].account)
                   /\ Connected(tasks[t].account) =>
                          tasks[t].pc = "login" /\ tasks[t].force
                   /\ tasks[t].pc = "connect" => ~Connected(tasks[t].account)'
            /\ Retries(t)]_vars
    /\ WaitersAcquire

\* a call failed at its connect, and a call without force for the account has
\* since connected the account's session without a login exchange
C18_ConnectedAfterFailure ==
    \E t, u \in Tasks :
        /\ tasks[t].pc = "done"
        /\ tasks[t].raised = Raised("ConnectionError")
        /\ tasks[u].pc = "done"
        /\ tasks[u].raised = None
        /\ ~tasks[u].force
        /\ ~tasks[u].login_done
        /\ tasks[u].account = tasks[t].account
        /\ Connected(tasks[u].account)

\* the gateway that the latest login exchange for an account returned
LatestGateway(a) ==
    Ref("CloudIOTGateway", CHOOSE i \in GatewaysOf(a) : \A j \in GatewaysOf(a) : j <= i)

\* C20 (forced re-login takes effect): when a forced call has returned
\* normally and no login exchange for the account has returned since, the
\* cloud_client of the MammotionCloud that mqtt_list holds for the account,
\* which a later call without force takes, is the one that call's login
\* exchange returned.
C20_ForcedReloginTakesEffect ==
    \A t \in Tasks :
        (/\ tasks[t].pc = "done"
         /\ tasks[t].force
         /\ tasks[t].raised = None
         /\ tasks[t].cloud_client = LatestGateway(tasks[t].account))
        => clouds[mqtt_list[tasks[t].account].id].cloud_client = tasks[t].cloud_client

\* the latest call was a create_devices
Created == outcome # None /\ outcome.op = "create_devices"

\* C21 (create_devices logs in only with credentials): a create_devices
\* without credentials registers the radio device and returns the instance,
\* without calling login_and_initiate_cloud and without raising, whatever the
\* preference; with credentials it calls login_and_initiate_cloud exactly when
\* the preference is EITHER or WIFI.
C21_LoginOnlyWithCredentials ==
    Created =>
        /\ outcome.name \in DOMAIN devices
        /\ has_ble(devices[outcome.name])
        /\ outcome.cloud_credentials = None =>
               /\ outcome.invoked = {}
               /\ outcome.raised = None
               /\ outcome.value = Ref("Mammotion", 1)
        /\ outcome.cloud_credentials # None =>
               /\ outcome.raised = None
               /\ ("login_and_initiate_cloud" \in outcome.invoked)
                      <=> outcome.preference \in {"EITHER", "WIFI"}

------------------------------------------------------------------------------
(* Properties of the registry.                                              *)

\* C5 (registration non-clobber): add_device with a manager that carries only a
\* cloud handle, for a name that has an entry, makes that handle the entry's
\* cloud handle and leaves its radio handle as it was; with a manager that
\* carries only a radio handle it makes that handle the entry's radio handle
\* and leaves its cloud handle as it was; so an entry with a radio handle has
\* both handles after the registration of a cloud handle.
C5_RegistrationNonClobber ==
    [][\A name \in DOMAIN devices, preference \in ConnectionPreference :
          /\ \A mqtt \in Clouds :
                 register(name, "cloud", mqtt, preference) =>
                     /\ devices'[name].cloud_device =
                            MammotionBaseCloudDevice(mqtt, [deviceName |-> name], nMowing + 1)
                     /\ devices'[name].ble_device = devices[name].ble_device
                     /\ has_ble(devices[name]) =>
                            has_ble(devices'[name]) /\ has_cloud(devices'[name])
          /\ register(name, "ble", None, preference) =>
                 /\ devices'[name].ble_device =
                        MammotionBaseBLEDevice(nMowing + 1, [name |-> name])
                 /\ devices'[name].cloud_device = devices[name].cloud_device]_vars

\* an entry registered with a radio handle has since got a cloud handle from a
\* second manager, and still has its radio handle
C5_CloudRegisteredOverRadio ==
    \E name \in DOMAIN devices :
        /\ has_ble(devices[name])
        /\ has_cloud(devices[name])
        /\ devices[name].ble_device.mowing_state = devices[name].mowing_state
        /\ devices[name].cloud_device.mowing_state # devices[name].mowing_state

\* the entries whose cloud handle is bound to a connection
BoundTo(devs, mqtt) ==
    {k \in DOMAIN devs : has_cloud(devs[k]) /\ devs[k].cloud_device.mqtt = mqtt}

\* C6 (broker teardown on last removal): remove_device of an entry with a cloud
\* handle calls disconnect on the handle's connection exactly when no entry
\* left in the registry has a cloud handle bound to that connection, and calls
\* it on no other connection.
C6_TeardownOnLastRemoval ==
    [][\A name \in DOMAIN devices :
          (has_cloud(devices[name]) /\ remove_device(name)) =>
              LET mqtt == devices[name].cloud_device.mqtt
              IN  /\ (clouds'[mqtt.id].disconnects = clouds[mqtt.id].disconnects + 1)
                         <=> BoundTo(devices', mqtt) = {}
                  /\ (clouds'[mqtt.id].disconnects = clouds[mqtt.id].disconnects)
                         <=> BoundTo(devices', mqtt) # {}
                  /\ \A i \in 1..Len(clouds) : i # mqtt.id => clouds'[i] = clouds[i]]_vars

\* two entries shared one connection: the first was removed and the connection
\* left alone, the second was removed and the connection disconnected once
C6_SharedBrokerClosedByLastRemoval ==
    /\ Len(gateways) = 1
    /\ gateways[1].devices = <<Luba1, Yuka2, RTK3>>
    /\ Len(clouds) = 1
    /\ clouds[1].disconnects = 1
    /\ ~clouds[1].is_connected
    /\ devices = <<>>
    /\ outcome # None
    /\ outcome.op = "remove_device"
    /\ outcome.raised = None

\* C15 (merge keeps identity and preference): a step that leaves a name in the
\* registry, be it add_ble_device with a second manager of the name or
\* add_cloud_devices, leaves it the same one entry: the manager that was first
\* registered, with the preference it was given then.
C15_MergeKeepsIdentityAndPreference ==
    [][\A name \in DOMAIN devices :
          name \in DOMAIN devices' =>
              /\ devices'[name].name = name
              /\ devices'[name].mowing_state = devices[name].mowing_state
              /\ devices'[name].preference = devices[name].preference]_vars

\* an entry added over radio with a preference other than WIFI has got its
\* cloud handle from add_cloud_devices, which registers new entries under WIFI
C15_RadioEntryReconciled ==
    \E name \in DOMAIN devices :
        /\ has_ble(devices[name])
        /\ has_cloud(devices[name])
        /\ devices[name].ble_device.mowing_state = devices[name].mowing_state
        /\ devices[name].cloud_device.mowing_state = devices[name].mowing_state
        /\ devices[name].preference = "BLUETOOTH"

\* the exceptions of class LookupError that dict and list operations raise
LookupErrors == {Raised("LookupError"), Raised("KeyError"), Raised("IndexError")}

\* C16 (removing an unknown name): remove_device for a name without an entry
\* raises a LookupError to its caller, leaves the registry as it was and calls
\* disconnect on no connection.
C16_RemoveUnknownRaises ==
    [][\A name \in DeviceNames :
          (name \notin DOMAIN devices /\ remove_device(name)) =>
              /\ outcome'.raised \in LookupErrors
              /\ devices' = devices
              /\ clouds' = clouds]_vars

\* a name without an entry was removed while another name had an entry bound
\* to a connection, which has never been disconnected
C16_UnknownRemovedBesideBoundEntry ==
    /\ outcome # None
    /\ outcome.op = "remove_device"
    /\ outcome.device = None
    /\ outcome.raised = Raised("KeyError")
    /\ \E k \in DOMAIN devices : k # outcome.name /\ has_cloud(devices[k])
    /\ \A i \in 1..Len(clouds) : clouds[i].disconnects = 0

\* task t runs add_cloud_devices in this step: its call reaches
\* initiate_cloud_connection, which returns after it or goes on to the connect
Reconciles(t) ==
    /\ tasks[t].pc \in {"idle", "waiting", "login"}
    /\ \/ tasks'[t].pc = "connect"
       \/ tasks'[t].pc = "done" /\ tasks'[t].raised = None

\* C17 (reconciliation postcondition): when add_cloud_devices has run for a
\* connection, every device of its account's device list whose name starts
\* with "Luba-" or "Yuka-" has an entry with a cloud handle bound to that
\* connection: a new entry under WIFI with no radio handle if the name had
\* none, the same cloud device on the same entry if it had one; devices with
\* other names have an entry only if they had one; every entry there was is
\* still there with its radio handle and its preference, and names that are
\* not in the list keep their entry as it was.
C17_ReconciliationPostcondition ==
    [][\A t \in Tasks :
          Reconciles(t) =>
              LET mqtt_client == mqtt_list'[tasks'[t].account]
                  list == gateways'[clouds'[mqtt_client.id].cloud_client.id].devices
                  listed == {list[i] : i \in 1..Len(list)}
              IN  /\ \A name \in listed :
                         IF startswith(name, {"Luba-", "Yuka-"})
                         THEN /\ name \in DOMAIN devices'
                              /\ has_cloud(devices'[name])
                              /\ devices'[name].cloud_device.mqtt = mqtt_client
                              /\ devices'[name].cloud_device.device = [deviceName |-> name]
                              /\ name \notin DOMAIN devices =>
                                     /\ devices'[name].preference = "WIFI"
                                     /\ ~has_ble(devices'[name])
                              /\ (name \in DOMAIN devices /\ has_cloud(devices[name])) =>
                                     devices'[name] = replace_mqtt(devices[name], mqtt_client)
                         ELSE name \in DOMAIN devices' <=> name \in DOMAIN devices
                  /\ \A name \in DOMAIN devices :
                         /\ name \in DOMAIN devices'
                         /\ devices'[name].ble_device = devices[name].ble_device
                         /\ devices'[name].preference = devices[name].preference
                         /\ name \notin listed => devices'[name] = devices[name]
                  /\ DOMAIN devices' \subseteq DOMAIN devices \cup listed]_vars

\* the one manager ever constructed was bound to the first account's
\* connection and has been rebound to the second's, both still connected
C17_EntryRebound ==
    /\ nMowing = 1
    /\ Len(clouds) = 2
    /\ Luba1 \in DOMAIN devices
    /\ has_cloud(devices[Luba1])
    /\ devices[Luba1].cloud_device.mqtt = Ref("MammotionCloud", 2)
    /\ clouds[1].is_connected
    /\ clouds[2].is_connected

\* C19 (shared device state per pair): every handle of a registry entry, radio
\* or cloud, is bound to the MowingDevice of that entry, the one mower(name)
\* returns.
C19_SharedDeviceState ==
    \A name \in DOMAIN devices :
        /\ has_ble(devices[name]) => devices[name].ble_device.mowing_state = mower(name)
        /\ has_cloud(devices[name]) => devices[name].cloud_device.mowing_state = mower(name)

------------------------------------------------------------------------------
(* Properties of the routing of commands.                                   *)

RoutingOps == {"send_command", "send_command_with_args", "start_sync", "start_map_sync"}

\* the latest call was a routing call
Routed == outcome # None /\ outcome.op \in RoutingOps

\* the call invoked the handle, nothing else, and returned what it returned
Dispatched(handle, kind) ==
    /\ handle # None
    /\ outcome.invoked = {kind}
    /\ outcome.raised = None
    /\ outcome.value = HandleReturn(handle, outcome.op)

C8_UnknownDeviceRaisesLookupError ==
    (Routed /\ outcome.device = None) =>
        /\ outcome.raised = Raised("LookupError")
        /\ outcome.invoked = {}

\* C9 (no silent fallthrough in routing): a routing call for a registered
\* device either invokes exactly one handle and returns what it returns, or
\* raises; it does not return without having invoked a handle.
C9_NoSilentFallthrough ==
    (Routed /\ outcome.device # None) =>
        \/ outcome.raised # None /\ outcome.invoked = {}
        \/ Dispatched(outcome.device.ble_device, "ble")
        \/ Dispatched(outcome.device.cloud_device, "cloud")

------------------------------------------------------------------------------
(* Properties of the map-data store.                                        *)

\* the dict update selects for a type (area 0, obstacle 1, path 2)
CategoryDict(type) == IF type = 0 THEN area ELSE IF type = 1 THEN obstacle ELSE path

\* the FrameList stored for a fragment's hash in its category, or None
FrameSetOf(hd) == DictGet(CategoryDict(hd.type), hd.hash)

\* a list without its repeated items, first occurrences kept in order
RECURSIVE FirstArrivals(_)
FirstArrivals(seq) ==
    IF seq = <<>> THEN <<>>
    ELSE LET front == FirstArrivals(SubSeq(seq, 1, Len(seq) - 1))
             last == seq[Len(seq)]
         IN  IF \E i \in 1..Len(front) : front[i] = last THEN front
             ELSE Append(front, last)

\* the fragments received so far with a given type and hash, in order of arrival
ReceivedFor(type, h) == SelectSeq(received, LAMBDA f : f.type = type /\ f.hash = h)

\* the dict of a category as it was before the latest update
CategoryDictBefore(type) ==
    IF type = 0 THEN before.area ELSE IF type = 1 THEN before.obstacle ELSE before.path

\* C3 (idempotent ingestion): when a fragment of a recognized category has been
\* ingested and an equal fragment is ingested next, the FrameSet under its hash
\* holds the same fragment sequence, of the same length, as before the second
\* ingestion.
C3_IdempotentIngestion ==
    LET n == Len(received)
    IN  (n >= 2 /\ received[n] = received[n - 1] /\ received[n].type \in 0..2) =>
            LET first == DictGet(CategoryDictBefore(received[n].type), received[n].hash)
                second == FrameSetOf(received[n])
            IN  /\ second.data = first.data
                /\ Len(second.data) = Len(first.data)

\* C4 (dedup in first-arrival order): the FrameSet under each hash of each
\* category holds exactly the distinct fragments received with that hash and
\* category, each once, in order of first arrival, with the total_frame of the
\* first; a hash nothing was received for has no FrameSet.
C4_DedupFirstArrivalOrder ==
    \A type \in 0..2, h \in 1..MaxHash :
        LET arrived == FirstArrivals(ReceivedFor(type, h))
            stored == DictGet(CategoryDict(type), h)
        IN  IF arrived = <<>> THEN stored = None
            ELSE stored = FrameList(arrived[1].total_frame, arrived)

\* C13 (total_frame stability): the FrameList under a hash of a category has
\* the total_frame of the first fragment received with that hash and category,
\* whatever total_frame the later ones declare.
C13_TotalFrameStability ==
    \A type \in 0..2, h \in 1..MaxHash :
        LET arrived == ReceivedFor(type, h)
            stored == DictGet(CategoryDict(type), h)
        IN  arrived # <<>> =>
                /\ stored # None
                /\ stored.total_frame = arrived[1].total_frame

\* a hash of a category has received a fragment that declares another
\* total_frame than its first one
C13_LaterFragmentDeclaresOtherTotal ==
    \E type \in 0..2, h \in 1..MaxHash :
        LET arrived == ReceivedFor(type, h)
        IN  /\ Len(arrived) >= 2
            /\ arrived[Len(arrived)].total_frame # arrived[1].total_frame
            /\ DictGet(CategoryDict(type), h) # None
            /\ Len(CategoryDict(type)[h].data) > Len(arrived)

\* C14 (hash and category isolation): every fragment stored under a hash of a
\* category has that hash and that category's type; the latest update left
\* every FrameList but the one under its fragment's hash in its fragment's
\* category as it was, and an update with a type outside 0..2 left the three
\* dicts as they were.
C14_HashAndCategoryIsolation ==
    /\ \A type \in 0..2 :
           \A h \in DOMAIN CategoryDict(type) :
               \A i \in 1..Len(CategoryDict(type)[h].data) :
                   /\ CategoryDict(type)[h].data[i].hash = h
                   /\ CategoryDict(type)[h].data[i].type = type
    /\ received # <<>> =>
           LET last == received[Len(received)]
           IN  /\ \A type \in 0..2, h \in 1..MaxHash :
                      (type # last.type \/ h # last.hash) =>
                          DictGet(CategoryDict(type), h) = DictGet(CategoryDictBefore(type), h)
               /\ \A type \in 0..2 :
                      type # last.type => CategoryDict(type) = CategoryDictBefore(type)
               /\ last.type \notin 0..2 =>
                      /\ area = before.area
                      /\ obstacle = before.obstacle
                      /\ path = before.path

\* one hash is stored in two categories, and the latest fragment was of a type
\* outside 0..2
C14_SameHashInTwoCategories ==
    /\ received # <<>>
    /\ received[Len(received)].type \notin 0..2
    /\ \E h \in 1..MaxHash, type1, type2 \in 0..2 :
           /\ type1 # type2
           /\ h \in DOMAIN CategoryDict(type1)
           /\ h \in DOMAIN CategoryDict(type2)

\* the HashList as it is now
HashListNow == [area |-> area, obstacle |-> obstacle, path |-> path]

\* the fragments of a list, as a set
Fragments(list) == {list[i] : i \in 1..Len(list)}

\* two HashLists store the same set of fragments, and as many fragments, under
\* every hash of every category
SameStored(x, y) ==
    \A c \in {"area", "obstacle", "path"} :
        /\ DOMAIN x[c] = DOMAIN y[c]
        /\ \A h \in DOMAIN x[c] :
               /\ Fragments(x[c][h].data) = Fragments(y[c][h].data)
               /\ Len(x[c][h].data) = Len(y[c][h].data)

\* a list in reverse order
Reverse(seq) == [i \in 1..Len(seq) |-> seq[Len(seq) + 1 - i]]

\* C12 (order independence of ingestion): the HashList reached by the fragments
\* received stores the same set of fragments, and as many, under every hash as
\* the one reached from a new HashList by the same fragments in reverse order,
\* and as the one reached by the same fragments without their repeated
\* deliveries.
C12_OrderIndependence ==
    /\ SameStored(HashListNow, Ingest(Reverse(received)))
    /\ SameStored(HashListNow, Ingest(FirstArrivals(received)))

\* the store is what update makes of the fragments received, one after the other
IngestIsUpdate == HashListNow = Ingest(received)

====
